---- MODULE Spec2Model ----
(***************************************************************************)
(* Model of src/main.ts (RainbowTreePlugin and NFLSettingTab).             *)
(*                                                                         *)
(* A path is a sequence of one-character strings, so that split('/') and   *)
(* the incremental rebuilding of prefixes are computed, not assumed.       *)
(* The stylesheet text is the sequence of the rules the loop appends; a    *)
(* rule is its selector (a sequence of selector tokens) and the two        *)
(* interpolated parts of its border declaration.                           *)
(***************************************************************************)
EXTENDS Integers, Sequences, FiniteSets, TLC

VARIABLES
    phase,          \* "init" (constructed), "loaded" (onload ran), "unloaded"
    data,           \* the persisted blob loadData() returns / saveData() writes
    settings,       \* this.settings
    styleAttached,  \* this.styleElement is a child of document.head
    styleText,      \* this.styleElement.textContent
    bodyClass,      \* document.body has class plugin-nested-folder-lines-focus
    bodyProp,       \* document.body.style --nfl-unfocused-color
    focusedPaths,   \* this.focusedPaths
    focusedClass,   \* the [data-path] elements (by path) carrying class focused
    leaves,         \* workspace.getLeavesOfType('markdown'), as their files
    pending,        \* saveSettings() calls suspended at await saveData(...)
    edits,          \* number of settings changes made so far
    lastOp          \* the handler that ran last

vars == <<phase, data, settings, styleAttached, styleText, bodyClass, bodyProp,
          focusedPaths, focusedClass, leaves, pending, edits, lastOp>>

----------------------------------------------------------------------------
(* Bounds of the model *)

MaxSegments == 3
MaxLeaves == 2
MaxStoredColors == 2
MaxPending == 1
MaxEdits == 2

(* Program constants *)

maxLevels == 10
NumPickers == 5

----------------------------------------------------------------------------
(* Values *)

Sep == "/"
SegmentNames == {<<>>, <<"a">>}
NoFile == <<"null">>
Hole == "empty"
Undefined == "undefined"
NoSettings == "uninitialized"
Unset == "unset"

LineStyles == {"solid", "dashed", "dotted"}
Fields == {"colors", "unfocusedColor", "enableFocus", "lineStyle"}

DEFAULT_SETTINGS ==
    [colors |-> <<"#ff5252", "#f99d6c", "#53c169", "#747dfb", "#f098fb">>,
     unfocusedColor |-> "#999999",
     enableFocus |-> TRUE,
     lineStyle |-> "solid"]

PickColours == {"#000000"}
StoredColours == {"#111", "#222"}

(* The file explorer's vault in the lifecycle specification, and the paths  *)
(* of the elements that carry a data-path attribute.                        *)
VaultFiles == {<<"b">>, <<"a", Sep, "b">>}
ElementPaths == {<<"a">>, <<"a", Sep, "b">>, <<"b">>}

RECURSIVE SeqsUpTo(_, _)
SeqsUpTo(S, n) ==
    IF n = 0 THEN {<<>>}
    ELSE LET T == SeqsUpTo(S, n - 1)
         IN T \cup {Append(t, x) : t \in {u \in T : Len(u) = n - 1}, x \in S}

\* the segments joined by the separator
RECURSIVE Joined(_)
Joined(segs) ==
    IF Len(segs) = 1 THEN segs[1]
    ELSE segs[1] \o <<Sep>> \o Joined(Tail(segs))

\* every path of at most MaxSegments segments, an empty segment included
\* (a leading, trailing or doubled separator); a file's path is not empty
AllPaths ==
    {Joined(segs) : segs \in SeqsUpTo(SegmentNames, MaxSegments) \ {<<>>}}
        \ {<<>>}

----------------------------------------------------------------------------
(* updateFocusedPaths: the Focus-Set resolver *)

\* filePath.split('/')
RECURSIVE SplitLoop(_, _, _, _)
SplitLoop(p, k, cur, acc) ==
    IF k > Len(p) THEN Append(acc, cur)
    ELSE IF p[k] = Sep THEN SplitLoop(p, k + 1, <<>>, Append(acc, cur))
    ELSE SplitLoop(p, k + 1, Append(cur, p[k]), acc)

split(p) == SplitLoop(p, 1, <<>>, <<>>)

\* the bound of the inner loop: i < pathSegments.length - 1
PrefixBoundShort(pathSegments) == Len(pathSegments) - 2
PrefixBound(pathSegments) == Len(pathSegments) - 1

\* for (let i = 0; i < pathSegments.length - 1; i++) { currentPath += ...; add }
RECURSIVE PrefixLoop(_, _, _, _)
PrefixLoop(pathSegments, i, currentPath, acc) ==
    IF ~(i < PrefixBound(pathSegments)) THEN acc
    ELSE LET next == currentPath \o (IF i > 0 THEN <<Sep>> ELSE <<>>)
                                 \o pathSegments[i + 1]
         IN PrefixLoop(pathSegments, i + 1, next, acc \cup {next})

\* for (const leaf of openLeaves) { if (file instanceof TFile) { ... } }
RECURSIVE LeafLoop(_, _, _)
LeafLoop(openLeaves, k, acc) ==
    IF k > Len(openLeaves) THEN acc
    ELSE LET file == openLeaves[k]
         IN IF file = NoFile THEN LeafLoop(openLeaves, k + 1, acc)
            ELSE LeafLoop(openLeaves, k + 1,
                          PrefixLoop(split(file), 0, <<>>, acc \cup {file}))

\* this.focusedPaths.clear()
Cleared(fp) == {}

\* the value of this.focusedPaths when updateFocusedPaths reaches line 145
resolve(fp, openLeaves) == LeafLoop(openLeaves, 1, Cleared(fp))

----------------------------------------------------------------------------
(* updateFocusStyles *)

\* classList.toggle(name, force): the class is there afterwards iff force
Toggle(has, force) == force

\* document.body.classList.toggle('plugin-nested-folder-lines-focus', enableFocus)
FocusModeClassOnlyAdded(has, cfg) == has \/ cfg.enableFocus
FocusModeClass(has, cfg) == Toggle(has, cfg.enableFocus)

\* elements.forEach(el => el.classList.toggle('focused', focusedPaths.has(path)))
FocusedElementsOnlyAdded(old, fp) == old \cup (ElementPaths \cap fp)
FocusedElements(old, fp) ==
    {e \in ElementPaths : Toggle(e \in old, e \in fp)}

----------------------------------------------------------------------------
(* updateBaseStyles: the depth stylesheet *)

Fragment == ".nav-folder-children "
Base == ".nav-folder-children::before"

\* '.nav-folder-children '.repeat(i)
RECURSIVE repeat(_, _)
repeat(s, n) == IF n <= 0 THEN <<>> ELSE <<s>> \o repeat(s, n - 1)

\* this.settings.colors[i % this.settings.colors.length], as interpolated:
\* a zero length makes the index NaN, and a missing entry reads undefined
ColorAtClamped(colors, i) ==
    IF Len(colors) = 0 THEN Undefined
    ELSE LET c == colors[IF i < Len(colors) THEN i + 1 ELSE Len(colors)]
         IN IF c = Hole THEN Undefined ELSE c
ColorAt(colors, i) ==
    IF Len(colors) = 0 THEN Undefined
    ELSE LET c == colors[(i % Len(colors)) + 1]
         IN IF c = Hole THEN Undefined ELSE c

\* one iteration's template literal
Rule(cfg, i) ==
    [selector |-> repeat(Fragment, i) \o <<Base>>,
     style |-> cfg.lineStyle,
     color |-> ColorAt(cfg.colors, i)]

\* for (let i = 0; i < maxLevels; i++) baseStyles += `...`
RECURSIVE StyleLoop(_, _, _)
StyleLoop(cfg, i, baseStyles) ==
    IF ~(i < maxLevels) THEN baseStyles
    ELSE StyleLoop(cfg, i + 1, Append(baseStyles, Rule(cfg, i)))

\* let baseStyles = ''; ...; this.styleElement.textContent = baseStyles
TextAppended(old, cfg) == old \o StyleLoop(cfg, 0, <<>>)
NewText(old, cfg) == StyleLoop(cfg, 0, <<>>)

\* updateBaseStyles' write of the custom property
UnfocusedProp(cfg) == cfg.unfocusedColor

----------------------------------------------------------------------------
(* Settings: loading and the setting tab's onChange handlers *)

\* a persisted blob: the fields it holds (none: no data yet) and their values;
\* a field it does not hold has the filler value of its type
StoredColors == SeqsUpTo(StoredColours, MaxStoredColors)

Filler == [colors |-> <<>>, unfocusedColor |-> "", enableFocus |-> FALSE,
           lineStyle |-> ""]

StoredWith(D) ==
    {[present |-> D, colors |-> c, unfocusedColor |-> u, enableFocus |-> e,
      lineStyle |-> l] :
        c \in IF "colors" \in D THEN StoredColors ELSE {Filler.colors},
        u \in IF "unfocusedColor" \in D THEN PickColours
              ELSE {Filler.unfocusedColor},
        e \in IF "enableFocus" \in D THEN BOOLEAN ELSE {Filler.enableFocus},
        l \in IF "lineStyle" \in D THEN LineStyles ELSE {Filler.lineStyle}}

StoredConfigs == UNION {StoredWith(D) : D \in SUBSET Fields}

\* what saveData(this.settings) writes
Persisted(cfg) ==
    [present |-> Fields, colors |-> cfg.colors,
     unfocusedColor |-> cfg.unfocusedColor, enableFocus |-> cfg.enableFocus,
     lineStyle |-> cfg.lineStyle]

\* Object.assign({}, DEFAULT_SETTINGS, await this.loadData())
Merged(stored) ==
    [colors |-> IF "colors" \in stored.present
                THEN stored.colors ELSE DEFAULT_SETTINGS.colors,
     unfocusedColor |-> IF "unfocusedColor" \in stored.present
                        THEN stored.unfocusedColor
                        ELSE DEFAULT_SETTINGS.unfocusedColor,
     enableFocus |-> IF "enableFocus" \in stored.present
                     THEN stored.enableFocus ELSE DEFAULT_SETTINGS.enableFocus,
     lineStyle |-> IF "lineStyle" \in stored.present
                   THEN stored.lineStyle ELSE DEFAULT_SETTINGS.lineStyle]

\* this.plugin.settings.colors[i] = value (an index past the end leaves holes)
SetAt(colors, i, value) ==
    [k \in 1..(IF i + 1 > Len(colors) THEN i + 1 ELSE Len(colors)) |->
        IF k = i + 1 THEN value
        ELSE IF k <= Len(colors) THEN colors[k] ELSE Hole]

----------------------------------------------------------------------------
(* The state machine *)

InitWith(dataSet, leafSet) ==
    /\ phase = "init"
    /\ data \in dataSet
    /\ settings = NoSettings
    /\ styleAttached = FALSE
    /\ styleText = <<>>
    /\ bodyClass = FALSE
    /\ bodyProp = Unset
    /\ focusedPaths = {}
    /\ focusedClass = {}
    /\ leaves \in leafSet
    /\ pending = <<>>
    /\ edits = 0
    /\ lastOp = "none"

\* updateFocusedPaths(), with the updateFocusStyles() it ends with
UpdateFocusedPaths(cfg) ==
    /\ focusedPaths' = resolve(focusedPaths, leaves)
    /\ bodyClass' = FocusModeClass(bodyClass, cfg)
    /\ focusedClass' = FocusedElements(focusedClass, focusedPaths')

\* updateBaseStyles()
UpdateBaseStyles(cfg) ==
    /\ bodyProp' = UnfocusedProp(cfg)
    /\ styleText' = NewText(styleText, cfg)

\* onload()
Onload ==
    /\ phase = "init"
    /\ phase' = "loaded"
    /\ settings' = Merged(data)
    /\ styleAttached' = TRUE
    /\ UpdateBaseStyles(settings')
    /\ UpdateFocusedPaths(settings')
    /\ lastOp' = "onload"
    /\ UNCHANGED <<data, leaves, pending, edits>>

\* document.body.classList.remove('plugin-nested-folder-lines-focus')
ClassKept(has) == has
ClassRemoved(has) == FALSE

\* onunload()
Onunload ==
    /\ phase = "loaded"
    /\ phase' = "unloaded"
    /\ styleAttached' = FALSE
    /\ bodyClass' = ClassRemoved(bodyClass)
    /\ lastOp' = "onunload"
    /\ UNCHANGED <<data, settings, styleText, bodyProp, focusedPaths,
                   focusedClass, leaves, pending, edits>>

\* the 'file-open' callback; the workspace passes the file that became active:
\* the file of an open leaf, or null when no leaf holds a file
FileOpen(file) ==
    /\ phase = "loaded"
    /\ \/ \E k \in DOMAIN leaves : leaves[k] = file /\ file # NoFile
       \/ file = NoFile /\ \A k \in DOMAIN leaves : leaves[k] = NoFile
    /\ IF file # NoFile
       THEN /\ UpdateFocusedPaths(settings)
            /\ lastOp' = "fileOpen"
       ELSE /\ UNCHANGED <<focusedPaths, bodyClass, focusedClass>>
            /\ lastOp' = "fileOpenNull"
    /\ UNCHANGED <<phase, data, settings, styleAttached, styleText, bodyProp,
                   leaves, pending, edits>>

\* the 'layout-change' callback
LayoutChange ==
    /\ phase = "loaded"
    /\ UpdateFocusedPaths(settings)
    /\ lastOp' = "layoutChange"
    /\ UNCHANGED <<phase, data, settings, styleAttached, styleText, bodyProp,
                   leaves, pending, edits>>

\* an onChange handler up to its await: the field is written, saveData is called
Change(cfg) ==
    /\ phase = "loaded"
    /\ edits < MaxEdits
    /\ Len(pending) < MaxPending
    /\ settings' = cfg
    /\ pending' = Append(pending, Persisted(cfg))
    /\ edits' = edits + 1
    /\ lastOp' = "change"
    /\ UNCHANGED <<phase, data, styleAttached, styleText, bodyClass, bodyProp,
                   focusedPaths, focusedClass, leaves>>

ColorChange(i, value) ==
    Change([settings EXCEPT !.colors = SetAt(settings.colors, i, value)])
LineStyleChange(value) == Change([settings EXCEPT !.lineStyle = value])
UnfocusedColorChange(value) == Change([settings EXCEPT !.unfocusedColor = value])
EnableFocusChange(value) == Change([settings EXCEPT !.enableFocus = value])

Remove(q, k) == [j \in 1..(Len(q) - 1) |-> IF j < k THEN q[j] ELSE q[j + 1]]

\* saveSettings() resumed after saveData resolved
SaveDone(k) ==
    /\ k \in DOMAIN pending
    /\ data' = pending[k]
    /\ pending' = Remove(pending, k)
    /\ UpdateBaseStyles(settings)
    /\ UpdateFocusedPaths(settings)
    /\ lastOp' = "saveDone"
    /\ UNCHANGED <<phase, settings, styleAttached, leaves, edits>>

\* saveData rejected: saveSettings() ends at its await
SaveFail(k) ==
    /\ k \in DOMAIN pending
    /\ pending' = Remove(pending, k)
    /\ lastOp' = "saveFail"
    /\ UNCHANGED <<phase, data, settings, styleAttached, styleText, bodyClass,
                   bodyProp, focusedPaths, focusedClass, leaves, edits>>

\* the host: a file is opened in a new leaf, a leaf is closed, an element of
\* the file explorer is rendered anew
OpenLeaf(file) ==
    /\ Len(leaves) < MaxLeaves
    /\ leaves' = Append(leaves, file)
    /\ lastOp' = "host"
    /\ UNCHANGED <<phase, data, settings, styleAttached, styleText, bodyClass,
                   bodyProp, focusedPaths, focusedClass, pending, edits>>

CloseLeaf(k) ==
    /\ k \in DOMAIN leaves
    /\ leaves' = Remove(leaves, k)
    /\ lastOp' = "host"
    /\ UNCHANGED <<phase, data, settings, styleAttached, styleText, bodyClass,
                   bodyProp, focusedPaths, focusedClass, pending, edits>>

Rerender(e) ==
    /\ e \in focusedClass
    /\ focusedClass' = focusedClass \ {e}
    /\ lastOp' = "host"
    /\ UNCHANGED <<phase, data, settings, styleAttached, styleText, bodyClass,
                   bodyProp, focusedPaths, leaves, pending, edits>>

----------------------------------------------------------------------------
(* Specifications.  Every one runs the same handlers; they differ in what  *)
(* the host does around the plugin: which blob is on disk, which files are *)
(* opened, which controls of the setting tab are used.                     *)

NoData == StoredWith({})

\* the plugin's life with files opened and closed and focus mode toggled
Next ==
    \/ Onload
    \/ Onunload
    \/ \E file \in VaultFiles \cup {NoFile} : FileOpen(file)
    \/ LayoutChange
    \/ \E value \in BOOLEAN : EnableFocusChange(value)
    \/ \E k \in 1..MaxPending : SaveDone(k)
    \/ \E k \in 1..MaxPending : SaveFail(k)
    \/ \E file \in VaultFiles : OpenLeaf(file)
    \/ \E k \in 1..MaxLeaves : CloseLeaf(k)
    \/ \E e \in ElementPaths : Rerender(e)

Spec ==
    InitWith(NoData \cup StoredWith({"enableFocus"}), {<<>>}) /\ [][Next]_vars

\* the setting tab: every control, with saves that resolve or reject
NextSettings ==
    \/ Onload
    \/ Onunload
    \/ LayoutChange
    \/ \E i \in 0..(NumPickers - 1), value \in PickColours : ColorChange(i, value)
    \/ \E value \in LineStyles : LineStyleChange(value)
    \/ \E value \in PickColours \cup {DEFAULT_SETTINGS.unfocusedColor} :
          UnfocusedColorChange(value)
    \/ \E value \in BOOLEAN : EnableFocusChange(value)
    \/ \E k \in 1..MaxPending : SaveDone(k)
    \/ \E k \in 1..MaxPending : SaveFail(k)

SpecSettings == InitWith(NoData, {<<>>}) /\ [][NextSettings]_vars

\* loading every persisted blob, then the colour pickers
NextLoad ==
    \/ Onload
    \/ \E i \in 0..(NumPickers - 1), value \in PickColours : ColorChange(i, value)
    \/ \E k \in 1..MaxPending : SaveDone(k)
    \/ \E k \in 1..MaxPending : SaveFail(k)

SpecLoad == InitWith(StoredConfigs, {<<>>}) /\ [][NextLoad]_vars

\* the resolver on every sequence of open leaves
NextResolve ==
    \/ Onload
    \/ LayoutChange

SpecResolve ==
    InitWith(NoData, SeqsUpTo(AllPaths \cup {NoFile}, MaxLeaves))
        /\ [][NextResolve]_vars

----------------------------------------------------------------------------
(* Claims *)

\* the handlers that end in updateFocusStyles(), and those that rebuild the text
Applied == {"onload", "fileOpen", "layoutChange", "saveDone"}
Regenerated == {"onload", "saveDone"}

\* the files of the open leaves
OpenFiles == {leaves[k] : k \in DOMAIN leaves} \ {NoFile}

\* the proper segment-prefixes of p: what stands before one of its separators
ProperPrefixes(p) == {SubSeq(p, 1, k - 1) : k \in {j \in DOMAIN p : p[j] = Sep}}

\* every open file and every proper segment-prefix of one
Closure == OpenFiles \cup UNION {ProperPrefixes(p) : p \in OpenFiles}

\* C1: whatever the sequence of open leaves (empty, with duplicates, with
\* leaves that hold no file, with paths without a separator), the set
\* updateFocusedPaths computes holds every open file's path and every proper
\* segment-prefix of one, and nothing else.
C1_ResolveIsClosure ==
    lastOp \in {"onload", "layoutChange"} => focusedPaths = Closure

\* C1 witness: the same three-segment path open twice, resolved to itself and
\* its two ancestors.
C1_Witness ==
    /\ lastOp = "onload"
    /\ Len(leaves) = 2
    /\ leaves[1] = leaves[2]
    /\ leaves[1] = <<"a", Sep, "a", Sep, "a">>
    /\ focusedPaths = {<<"a">>, <<"a", Sep, "a">>, <<"a", Sep, "a", Sep, "a">>}

\* C2 as claimed: the set is empty before onload, and once any handler of a
\* host signal (file-open, with or without a file, or layout-change) has run,
\* it is the closure of the files open now.
C2_FocusedSetCurrent ==
    /\ phase = "init" => focusedPaths = {}
    /\ lastOp \in {"onload", "fileOpen", "fileOpenNull", "layoutChange"}
          => focusedPaths = Closure

\* C5: after every call of updateFocusStyles the focus-mode class is on the
\* body iff settings.enableFocus, whatever it was before.
C5_FocusModeClassIffEnabled ==
    lastOp \in Applied => (bodyClass = settings.enableFocus)

\* C5 witness: loaded with focus mode enabled by default, the toggle switched
\* off and, its save still pending, a layout-change has removed the class.
C5_Witness ==
    /\ lastOp = "layoutChange"
    /\ data \in NoData
    /\ pending # <<>>
    /\ ~settings.enableFocus
    /\ ~bodyClass

\* C6: after every call of updateFocusStyles an element with a data-path has
\* the class focused iff its path is in focusedPaths, whether or not focus mode
\* is enabled.
C6_FocusedIffMember ==
    lastOp \in Applied => focusedClass = ElementPaths \cap focusedPaths

\* C6 witness: focus mode disabled, some elements marked and some not.
C6_Witness ==
    /\ lastOp \in Applied
    /\ ~settings.enableFocus
    /\ focusedClass # {}
    /\ focusedClass # ElementPaths

\* C7: right after onunload the focus-mode class is off the body and the style
\* element is detached.
C7_UnloadRemoves ==
    lastOp = "onunload" => ~bodyClass /\ ~styleAttached

\* C7 witness: unloaded from a state in which focus mode had been enabled and
\* applied ever since onload.
C7_Witness ==
    /\ lastOp = "onunload"
    /\ settings.enableFocus
    /\ edits = 0
    /\ leaves # <<>>

\* C8 as claimed: right after onunload everything the plugin wrote to the
\* document is as it was before onload: no style element, no focus-mode class,
\* no --nfl-unfocused-color property, no element marked focused.
C8_UnloadRestores ==
    lastOp = "onunload" =>
        /\ ~styleAttached
        /\ ~bodyClass
        /\ bodyProp = Unset
        /\ focusedClass = {}

\* a palette of colours: no entry is missing
Palette(colors) == \A k \in DOMAIN colors : colors[k] # Hole

\* the selector of depth i: the fragment i times, then the base selector
SelectorAt(i) == [k \in 1..(i + 1) |-> IF k <= i THEN Fragment ELSE Base]

\* C3: built from a non-empty palette, the stylesheet is exactly maxLevels
\* rules; rule i has the child-container fragment i times before the base
\* selector, the colour colors[i mod length] and the configured line style.
C3_DepthRules ==
    (lastOp \in Regenerated /\ Len(settings.colors) >= 1 /\ Palette(settings.colors))
        => /\ Len(styleText) = maxLevels
           /\ \A i \in 0..(maxLevels - 1) :
                 /\ styleText[i + 1].selector = SelectorAt(i)
                 /\ styleText[i + 1].color
                        = settings.colors[(i % Len(settings.colors)) + 1]
                 /\ styleText[i + 1].style = settings.lineStyle

\* C3 witness: a stored two-colour palette and a stored line style: depths 0
\* and 2 take the first colour, depths 1 and 3 the second.
C3_Witness ==
    /\ lastOp = "onload"
    /\ settings.colors = <<"#111", "#222">>
    /\ settings.lineStyle = "dotted"
    /\ styleText[1].color = "#111" /\ styleText[3].color = "#111"
    /\ styleText[2].color = "#222" /\ styleText[4].color = "#222"

\* C4: after every regeneration the text holds maxLevels rules with pairwise
\* different selectors, each with the current line style and a colour of the
\* current palette: it is what the current configuration yields, with no rule
\* left from an earlier configuration and no rule twice.
C4_FullReplacement ==
    lastOp \in Regenerated =>
        /\ Len(styleText) = maxLevels
        /\ \A i, j \in DOMAIN styleText :
              styleText[i].selector = styleText[j].selector => i = j
        /\ \A i \in DOMAIN styleText :
              /\ styleText[i].style = settings.lineStyle
              /\ \E k \in DOMAIN settings.colors :
                    styleText[i].color = settings.colors[k]
        /\ styleText = StyleLoop(settings, 0, <<>>)

\* C4 witness: regenerated after two changes, to a line style and a first
\* colour the text built at onload did not have.
C4_Witness ==
    /\ lastOp = "saveDone"
    /\ edits = 2
    /\ settings.lineStyle = "dashed"
    /\ settings.colors[1] = "#000000"
    /\ styleText[1].color = "#000000"

\* what the document shows is what the configuration says
Reflects(cfg) ==
    /\ styleText = StyleLoop(cfg, 0, <<>>)
    /\ bodyProp = cfg.unfocusedColor
    /\ bodyClass = cfg.enableFocus

\* C9 as claimed: once every saveSettings call started by a settings change
\* has ended, however its saveData ended, the stylesheet text, the unfocused
\* colour and the focus-mode class reflect the current settings.
C9_VisualStateFollowsSettings ==
    (phase = "loaded" /\ pending = <<>>) => Reflects(settings)

\* C10 as claimed: onload gives every field the blob lacks its default value,
\* and from then on the palette has an entry, and a defined one, for every
\* depth.
C10_PaletteDefined ==
    /\ lastOp = "onload" =>
          \A f \in Fields \ data.present :
              Persisted(settings)[f] = Persisted(DEFAULT_SETTINGS)[f]
    /\ phase # "init" =>
          /\ Len(settings.colors) >= 1
          /\ \A i \in 0..(maxLevels - 1) :
                settings.colors[(i % Len(settings.colors)) + 1] # Hole

====
